---------------------------- MODULE Spec2Model ----------------------------
(***************************************************************************)
(* KineTrack: the exercise analyzers (exercise_analyzer.py,                *)
(* pushup_analyzer.py, squat_analyzer.py) and the websocket endpoint that  *)
(* drives them (main.py).                                                  *)
(*                                                                         *)
(* Units.  Angles handed to the analyzer are whole degrees.  The           *)
(* exponentially smoothed elbow angle is a Python float; it is kept here   *)
(* in units of 1/Scale degree and every smoothing step rounds to the       *)
(* nearest unit, as the float operation rounds to the nearest double.      *)
(* relative_time is kept in tenths of a second.                            *)
(*                                                                         *)
(* A frame is the dict handed to process_frame.  Its geometry is carried   *)
(* as the three angles calculate_angle yields for its coordinates; which   *)
(* landmarks are present, and whether each has its x and y entry, is       *)
(* carried per name.                                                       *)
(***************************************************************************)
EXTENDS Integers, Sequences, FiniteSets, TLC

\* ------------------------------------------------------------- bounds
\* process_frame calls per analyzer instance
MaxFrames == 9
\* process_frame calls per instance of a session whose source varies everything
MaxMixedFrames == 4
MaxScriptFrames == 20
\* units per degree of the smoothed elbow angle
Scale == 100

\* ------------------------------------------------- program constants
FRAME_BUFFER == 3
depth_threshold_angle == 100
rep_threshold == 150
body_straight_angle_min == 150
elbow_flare_angle_max == 80
\* 1.0 s, in tenths of a second
rep_too_fast_seconds == 10
\* good_form_frames >= 8
good_form_streak == 8
\* smoothed_elbow_angle = None
None == -1

\* ------------------------------------------------------ feedback items
\* An element of a returned list.  type is the Python type of the element,
\* msg its text (for a formatted text, the format), arg the value formatted
\* into it.
Str(m) == [type |-> "str", msg |-> m, arg |-> ""]
StrOf(m, a) == [type |-> "str", msg |-> m, arg |-> a]
\* {e}: a set display holding the caught exception
SetOf(a) == [type |-> "set", msg |-> "{e}", arg |-> a]

BackMsg == Str("Keep your back straight!")
FlareMsg == Str("Tuck your elbows in a bit!")
DeeperMsg == Str("Go deeper on your push-ups!")
SlowMsg == Str("Slow down your reps!")
GreatMsg == Str("Great form! Keep it up!")
NoFeedback == Str("")
\* SquatAnalyzer
SquatDeeperMsg == Str("Go deeper!")
KneesOutMsg == Str("Push your knees out!")
KneesFlareMsg == Str("Don't let your knees flare out too wide!")

\* The text of the KeyError get_landmark raises for name.
LandmarkNotFound(name) == name

\* ------------------------------------------------------------- frames
PushupLandmarks ==
    <<"right_shoulder", "right_elbow", "right_wrist", "right_hip", "right_ankle">>
SquatLandmarks ==
    <<"left_hip", "left_knee", "left_ankle", "right_hip", "right_knee", "right_ankle">>

Range(seq) == {seq[i] : i \in DOMAIN seq}

Vocabulary == Range(PushupLandmarks) \cup Range(SquatLandmarks)

\* Per landmark name: "ok" (present with x and y), "absent" (no such key),
\* "no_x" / "no_y" (present, without that entry).
AllOk == [n \in Vocabulary |-> "ok"]

LandmarkMaps ==
    { AllOk,
      [AllOk EXCEPT !["right_wrist"] = "absent"],
      [AllOk EXCEPT !["right_hip"] = "absent"],
      [AllOk EXCEPT !["left_knee"] = "absent"],
      [AllOk EXCEPT !["right_shoulder"] = "absent", !["right_wrist"] = "absent"],
      [AllOk EXCEPT !["right_elbow"] = "no_x"],
      [AllOk EXCEPT !["right_hip"] = "no_y"] }

ElbowAngles == {70, 180}
BodyAngles == {140, 170}
FlareAngles == {45, 90}
\* the relative_time values the pose source stamps frames with, in tenths of
\* a second; a session's stamps never decrease
Times == {0, 5, 20}

MkFrame(hl, ht, lm, e, b, fl, t) ==
    [has_landmarks |-> hl, has_relative_time |-> ht, landmarks |-> lm,
     elbow_angle |-> e, body_angle |-> b, elbow_flare_angle |-> fl,
     relative_time |-> t]

\* A frame with every landmark, a straight back and tucked elbows.
GoodFrame(e, t) == MkFrame(TRUE, TRUE, AllOk, e, 170, 45, t)

\* Frames that miss data: a landmark, an x or y entry, the landmarks mapping
\* or relative_time.
DefectFrames(now) ==
    { MkFrame(TRUE, TRUE, lm, 180, 170, 45, now) : lm \in LandmarkMaps \ {AllOk} }
    \cup { MkFrame(FALSE, TRUE, AllOk, 180, 170, 45, now),
           MkFrame(TRUE, FALSE, AllOk, 180, 170, 45, now),
           MkFrame(TRUE, FALSE, [AllOk EXCEPT !["right_hip"] = "absent"],
                   180, 170, 45, now) }

\* What a session's pose source varies from frame to frame.  Every source
\* varies the elbow angle; "tempo" also the time stamps, "form" also the back
\* and elbow-flare angles, "landmarks" also which data a frame carries, and
\* "mixed" all of them, over a shorter session.
Sources == {"tempo", "form", "landmarks", "mixed"}

\* The frames a source may hand over when its clock reads now.
Frames(src, now) ==
    CASE src = "tempo" ->
           { GoodFrame(e, t) : e \in ElbowAngles, t \in {u \in Times : u >= now} }
      [] src = "form" ->
           { MkFrame(TRUE, TRUE, AllOk, e, b, fl, now) :
               e \in ElbowAngles, b \in BodyAngles, fl \in FlareAngles }
      [] src = "landmarks" ->
           { GoodFrame(e, now) : e \in ElbowAngles } \cup DefectFrames(now)
      [] OTHER ->
           { MkFrame(TRUE, TRUE, AllOk, e, b, fl, t) :
               e \in ElbowAngles, b \in BodyAngles, fl \in FlareAngles,
               t \in {u \in Times : u >= now} }
           \cup DefectFrames(now)

\* The process_frame calls of a session.
SessionFrames(src) ==
    IF src = "mixed" THEN MaxMixedFrames
    ELSE IF src = "script" THEN MaxScriptFrames
    ELSE MaxFrames

NoFrame == MkFrame(FALSE, FALSE, AllOk, 0, 0, 0, 0)

\* ---------------------------------------------------- ExerciseAnalyzer
\* The first name of required, in lookup order, whose lookup raises KeyError;
\* "" when every lookup succeeds.
FirstKeyError(landmarks, required) ==
    LET bad == {i \in DOMAIN required : landmarks[required[i]] # "ok"}
    IN IF bad = {} THEN ""
       ELSE required[CHOOSE i \in bad : \A j \in bad : i <= j]

\* get_landmark(landmarks, name): TRUE when it returns [x, y], FALSE when it
\* raises KeyError.
get_landmark(landmarks, name) == landmarks[name] = "ok"

\* The outcome of one process_frame call: the object after the call, the
\* exception that left the call ("" when it returned) and the list returned.
Returned(obj, list) == [self |-> obj, raised |-> "", ret |-> list]
Raised(obj, exc) == [self |-> obj, raised |-> exc, ret |-> <<>>]

\* Angles in hundredths of a degree.
Deg(n) == n * 100

Abs(n) == IF n < 0 THEN -n ELSE n

\* The coordinates the points of a calculate_angle call are drawn from; a
\* point is <<x, y>>.
Coords == -2 .. 2
Points == Coords \X Coords

\* arctan(p / q) for 0 <= p <= q, q > 0, over the differences of Coords,
\* rounded to a hundredth of a degree.
ArcTan(p, q) ==
    IF p = 0 THEN 0
    ELSE IF p = q THEN 4500
    ELSE IF 4 * p = q THEN 1404
    ELSE IF 3 * p = q THEN 1843
    ELSE IF 2 * p = q THEN 2657
    ELSE IF 3 * p = 2 * q THEN 3369
    ELSE 3687

\* np.arctan2(y, x), in (-180, 180] degrees; arctan2(0, 0) is 0.
arctan2(y, x) ==
    LET ax == Abs(x)
        ay == Abs(y)
        acute == IF ay <= ax
                 THEN IF ax = 0 THEN 0 ELSE ArcTan(ay, ax)
                 ELSE Deg(90) - ArcTan(ax, ay)
        turned == IF x < 0 THEN Deg(180) - acute ELSE acute
    IN IF y < 0 THEN -turned ELSE turned

\* A variant without the fold of angles above 180.
calculate_angle_no_fold(a, b, c) ==
    Abs(arctan2(c[2] - b[2], c[1] - b[1]) - arctan2(a[2] - b[2], a[1] - b[1]))

\* calculate_angle(a, b, c): the angle at b. The difference of the two
\* arctan2 values is taken in degrees, so radians * 180.0 / np.pi is the
\* change of unit already made by arctan2 above.
calculate_angle(a, b, c) ==
    LET radians == arctan2(c[2] - b[2], c[1] - b[1])
                   - arctan2(a[2] - b[2], a[1] - b[1])
        angle == Abs(radians)
    IN IF angle > Deg(180) THEN Deg(360) - angle ELSE angle

\* No calculate_angle call made yet.
NoAngleCall == [a |-> <<0, 0>>, b |-> <<0, 0>>, c |-> <<0, 0>>, ret |-> None]

\* No live_coaching session: backend.py is not running.
NoCoaching == [pc |-> "none"]

\* ------------------------------------------------------- PushupAnalyzer
\* A variant that keeps the stage ExerciseAnalyzer.__init__ set (None).
PushupAnalyzer_init_base ==
    [rep_count |-> 0, stage |-> "None", feedback_log |-> <<>>, frame_count |-> 0,
     last_feedback |-> NoFeedback, min_angle_in_rep |-> 180,
     up_frames |-> 0, down_frames |-> 0, smoothed_elbow_angle |-> None,
     rep_start_time |-> 0, good_form_frames |-> 0, good_form_bool |-> FALSE]

PushupAnalyzer_init ==
    [rep_count |-> 0, stage |-> "up", feedback_log |-> <<>>, frame_count |-> 0,
     last_feedback |-> NoFeedback, min_angle_in_rep |-> 180,
     up_frames |-> 0, down_frames |-> 0, smoothed_elbow_angle |-> None,
     rep_start_time |-> 0, good_form_frames |-> 0, good_form_bool |-> FALSE]

\* The working state of a call: the object and feedback_this_frame.
Ctx(obj, fb) == [self |-> obj, fb |-> fb]

\* smoothing_factor 0.3: 0.3 * elbow_angle + 0.7 * smoothed_elbow_angle
Smooth(prev, elbow_angle) ==
    IF prev = None THEN elbow_angle * Scale
    ELSE (3 * elbow_angle * Scale + 7 * prev + 5) \div 10

\* A variant that keeps the suppressed message when the condition stops.
BodyStraightnessCheck_no_clear(c, body_angle) ==
    IF body_angle < body_straight_angle_min
    THEN LET s == [c.self EXCEPT !.good_form_bool = FALSE]
         IN IF s.last_feedback # BackMsg
            THEN Ctx([s EXCEPT !.last_feedback = BackMsg], Append(c.fb, BackMsg))
            ELSE Ctx(s, c.fb)
    ELSE c

\* 1. Body Straightness Check
BodyStraightnessCheck(c, body_angle) ==
    IF body_angle < body_straight_angle_min
    THEN LET s == [c.self EXCEPT !.good_form_bool = FALSE]
         IN IF s.last_feedback # BackMsg
            THEN Ctx([s EXCEPT !.last_feedback = BackMsg], Append(c.fb, BackMsg))
            ELSE Ctx(s, c.fb)
    ELSE IF c.self.last_feedback = BackMsg
    THEN Ctx([c.self EXCEPT !.last_feedback = NoFeedback], c.fb)
    ELSE c

\* 2. Elbow Flare Check
ElbowFlareCheck(c, elbow_flare_angle) ==
    IF elbow_flare_angle > elbow_flare_angle_max
    THEN LET s == [c.self EXCEPT !.good_form_bool = FALSE]
         IN IF c.self.last_feedback # FlareMsg
            THEN Ctx([s EXCEPT !.last_feedback = FlareMsg], Append(c.fb, FlareMsg))
            ELSE Ctx(s, c.fb)
    ELSE IF c.self.last_feedback = FlareMsg
    THEN Ctx([c.self EXCEPT !.last_feedback = NoFeedback], c.fb)
    ELSE c

\* The is-down predicate of a frame.
IsDown(smoothed) == smoothed < rep_threshold * Scale

\* A variant that leaves the other counter as it was.
UpdateCounters_no_reset(s, smoothed) ==
    IF IsDown(smoothed)
    THEN [s EXCEPT !.down_frames = @ + 1]
    ELSE [s EXCEPT !.up_frames = @ + 1]

\* A variant whose counters stop at the frame buffer.
UpdateCounters_saturating(s, smoothed) ==
    IF IsDown(smoothed)
    THEN [s EXCEPT !.down_frames = IF @ < FRAME_BUFFER THEN @ + 1 ELSE @,
                   !.up_frames = 0]
    ELSE [s EXCEPT !.up_frames = IF @ < FRAME_BUFFER THEN @ + 1 ELSE @,
                   !.down_frames = 0]

\* 3. the frame buffer counters
UpdateCounters(s, smoothed) ==
    IF IsDown(smoothed)
    THEN [s EXCEPT !.down_frames = @ + 1, !.up_frames = 0]
    ELSE [s EXCEPT !.up_frames = @ + 1, !.down_frames = 0]

Min(a, b) == IF a <= b THEN a ELSE b

\* A variant whose increment runs twice.
DepthCheck_counts_twice(c) ==
    IF c.self.min_angle_in_rep > depth_threshold_angle
    THEN Ctx([c.self EXCEPT !.good_form_bool = FALSE], Append(c.fb, DeeperMsg))
    ELSE Ctx([c.self EXCEPT !.rep_count = @ + 2], c.fb)

\* A variant that counts the rep whatever its depth.
DepthCheck_counts_shallow(c) ==
    IF c.self.min_angle_in_rep > depth_threshold_angle
    THEN Ctx([c.self EXCEPT !.good_form_bool = FALSE, !.rep_count = @ + 1],
             Append(c.fb, DeeperMsg))
    ELSE Ctx([c.self EXCEPT !.rep_count = @ + 1], c.fb)

\* 4. Depth Check, at the end of the rep
DepthCheck(c) ==
    IF c.self.min_angle_in_rep > depth_threshold_angle
    THEN Ctx([c.self EXCEPT !.good_form_bool = FALSE], Append(c.fb, DeeperMsg))
    ELSE Ctx([c.self EXCEPT !.rep_count = @ + 1], c.fb)

\* 5. Tempo Check
TempoCheck(c, current_time) ==
    IF current_time - c.self.rep_start_time < rep_too_fast_seconds
       /\ c.self.rep_start_time > 0
    THEN Ctx([c.self EXCEPT !.good_form_bool = FALSE], Append(c.fb, SlowMsg))
    ELSE c

\* A variant that compares the counters with > in place of >=.
StageLogic_late(c, elbow_angle, current_time) ==
    IF c.self.stage = "up" /\ c.self.down_frames > FRAME_BUFFER
    THEN Ctx([c.self EXCEPT !.stage = "down",
                            !.rep_start_time = current_time,
                            !.min_angle_in_rep = elbow_angle], c.fb)
    ELSE IF c.self.stage = "down"
    THEN LET s == [c.self EXCEPT !.min_angle_in_rep = Min(@, elbow_angle)]
         IN IF s.up_frames > FRAME_BUFFER
            THEN LET d == DepthCheck(Ctx([s EXCEPT !.stage = "up"], c.fb))
                     t == TempoCheck(d, current_time)
                 IN Ctx([t.self EXCEPT !.rep_start_time = 0,
                                       !.min_angle_in_rep = 180], t.fb)
            ELSE Ctx(s, c.fb)
    ELSE c

\* A variant that starts tracking the minimum on the frame after the one
\* that takes the stage down.
StageLogic_tracks_after(c, elbow_angle, current_time) ==
    IF c.self.stage = "up" /\ c.self.down_frames >= FRAME_BUFFER
    THEN Ctx([c.self EXCEPT !.stage = "down",
                            !.rep_start_time = current_time], c.fb)
    ELSE IF c.self.stage = "down"
    THEN LET s == [c.self EXCEPT !.min_angle_in_rep = Min(@, elbow_angle)]
         IN IF s.up_frames >= FRAME_BUFFER
            THEN LET d == DepthCheck(Ctx([s EXCEPT !.stage = "up"], c.fb))
                     t == TempoCheck(d, current_time)
                 IN Ctx([t.self EXCEPT !.rep_start_time = 0,
                                       !.min_angle_in_rep = 180], t.fb)
            ELSE Ctx(s, c.fb)
    ELSE c

\* A variant that lets a rep begin only on a frame stamped after 0.
StageLogic_needs_clock(c, elbow_angle, current_time) ==
    IF c.self.stage = "up" /\ c.self.down_frames >= FRAME_BUFFER /\ current_time > 0
    THEN Ctx([c.self EXCEPT !.stage = "down",
                            !.rep_start_time = current_time,
                            !.min_angle_in_rep = elbow_angle], c.fb)
    ELSE IF c.self.stage = "down"
    THEN LET s == [c.self EXCEPT !.min_angle_in_rep = Min(@, elbow_angle)]
         IN IF s.up_frames >= FRAME_BUFFER
            THEN LET d == DepthCheck(Ctx([s EXCEPT !.stage = "up"], c.fb))
                     t == TempoCheck(d, current_time)
                 IN Ctx([t.self EXCEPT !.rep_start_time = 0,
                                       !.min_angle_in_rep = 180], t.fb)
            ELSE Ctx(s, c.fb)
    ELSE c

\* A variant that counts the rep when it begins, too.
StageLogic_counts_descent(c, elbow_angle, current_time) ==
    IF c.self.stage = "up" /\ c.self.down_frames >= FRAME_BUFFER
    THEN Ctx([c.self EXCEPT !.stage = "down",
                            !.rep_count = @ + 1,
                            !.rep_start_time = current_time,
                            !.min_angle_in_rep = elbow_angle], c.fb)
    ELSE IF c.self.stage = "down"
    THEN LET s == [c.self EXCEPT !.min_angle_in_rep = Min(@, elbow_angle)]
         IN IF s.up_frames >= FRAME_BUFFER
            THEN LET d == DepthCheck(Ctx([s EXCEPT !.stage = "up"], c.fb))
                     t == TempoCheck(d, current_time)
                 IN Ctx([t.self EXCEPT !.rep_start_time = 0,
                                       !.min_angle_in_rep = 180], t.fb)
            ELSE Ctx(s, c.fb)
    ELSE c

\* The stage machine: the rep begins, is tracked, and ends.
StageLogic(c, elbow_angle, current_time) ==
    IF c.self.stage = "up" /\ c.self.down_frames >= FRAME_BUFFER
    THEN Ctx([c.self EXCEPT !.stage = "down",
                            !.rep_start_time = current_time,
                            !.min_angle_in_rep = elbow_angle], c.fb)
    ELSE IF c.self.stage = "down"
    THEN LET s == [c.self EXCEPT !.min_angle_in_rep = Min(@, elbow_angle)]
         IN IF s.up_frames >= FRAME_BUFFER
            THEN LET d == DepthCheck(Ctx([s EXCEPT !.stage = "up"], c.fb))
                     t == TempoCheck(d, current_time)
                 IN Ctx([t.self EXCEPT !.rep_start_time = 0,
                                       !.min_angle_in_rep = 180], t.fb)
            ELSE Ctx(s, c.fb)
    ELSE c

\* A variant that counts every frame, whatever its form.
GoodFormStreak_any_form(c) ==
    IF c.self.good_form_frames + 1 >= good_form_streak
    THEN Ctx([c.self EXCEPT !.good_form_frames = 0], Append(c.fb, GreatMsg))
    ELSE Ctx([c.self EXCEPT !.good_form_frames = @ + 1], c.fb)

\* the good form streak
GoodFormStreak(c) ==
    IF c.self.good_form_bool
    THEN IF c.self.good_form_frames + 1 >= good_form_streak
         THEN Ctx([c.self EXCEPT !.good_form_frames = 0], Append(c.fb, GreatMsg))
         ELSE Ctx([c.self EXCEPT !.good_form_frames = @ + 1], c.fb)
    ELSE Ctx([c.self EXCEPT !.good_form_frames = 0], c.fb)

\* A variant that appends every item, logged before or not.
LogFeedback_no_dedup(log, fb) == log \o fb

\* Add new, unique feedback to the session log
RECURSIVE LogFeedback(_, _)
LogFeedback(log, fb) ==
    IF fb = <<>> THEN log
    ELSE LogFeedback(IF Head(fb) \in Range(log) THEN log ELSE Append(log, Head(fb)),
                     Tail(fb))

\* The body of the try block once every landmark has been fetched.
Pushup_analyze(s, frame) ==
    LET smoothed == Smooth(s.smoothed_elbow_angle, frame.elbow_angle)
        c0 == Ctx([s EXCEPT !.smoothed_elbow_angle = smoothed], <<>>)
        c1 == BodyStraightnessCheck(c0, frame.body_angle)
        c2 == ElbowFlareCheck(c1, frame.elbow_flare_angle)
        c3 == Ctx(UpdateCounters(c2.self, smoothed), c2.fb)
        c4 == StageLogic(c3, frame.elbow_angle, frame.relative_time)
        c5 == GoodFormStreak(c4)
    IN Returned([c5.self EXCEPT !.feedback_log = LogFeedback(@, c5.fb)], c5.fb)

\* A variant that drops the frame buffer when a landmark is lost.
Pushup_except_KeyError_resets(s, name) ==
    Returned([s EXCEPT !.up_frames = 0, !.down_frames = 0],
             <<SetOf(LandmarkNotFound(name))>>)

\* A variant that forgets the suppressed message when a landmark is lost.
Pushup_except_KeyError_rearms(s, name) ==
    Returned([s EXCEPT !.last_feedback = NoFeedback],
             <<SetOf(LandmarkNotFound(name))>>)

\* except KeyError as e: return [{e}]
Pushup_except_KeyError(s, name) == Returned(s, <<SetOf(LandmarkNotFound(name))>>)

Pushup_process_frame(self, frame) ==
    LET s0 == [self EXCEPT !.frame_count = @ + 1]
    IN IF ~frame.has_landmarks THEN Raised(s0, "KeyError")
       ELSE IF ~frame.has_relative_time THEN Raised(s0, "KeyError")
       ELSE LET s1 == [s0 EXCEPT !.good_form_bool = TRUE]
                missing == FirstKeyError(frame.landmarks, PushupLandmarks)
            IN IF missing # ""
               THEN Pushup_except_KeyError(s1, missing)
               ELSE Pushup_analyze(s1, frame)

\* -------------------------------------------------------- SquatAnalyzer
SquatAnalyzer_init ==
    [rep_count |-> 0, stage |-> "up", feedback_log |-> <<>>, frame_count |-> 0,
     min_hip_y_in_rep |-> "inf", up_frames |-> 0, down_frames |-> 0]

\* except KeyError as e: return [f"Missing landmark: {e}"]
Squat_except_KeyError(s, name) ==
    Returned(s, <<StrOf("Missing landmark: {e}", LandmarkNotFound(name))>>)

\* except Exception as e: return [f"An error occurred during squat analysis: {e}"]
Squat_except_Exception(s, e) ==
    Returned(s, <<StrOf("An error occurred during squat analysis: {e}", e)>>)

\* l_hip is the list [x, y] that get_landmark returned; l_hip['y'] indexes a
\* list with a str, which raises TypeError before any counter is touched.
Squat_analyze(s, frame) ==
    Squat_except_Exception(s, "list indices must be integers or slices, not str")

Squat_process_frame(self, frame) ==
    LET s0 == [self EXCEPT !.frame_count = @ + 1]
    IN IF ~frame.has_landmarks THEN Raised(s0, "KeyError")
       ELSE LET missing == FirstKeyError(frame.landmarks, SquatLandmarks)
            IN IF missing # ""
               THEN Squat_except_KeyError(s0, missing)
               ELSE Squat_analyze(s0, frame)

\* ----------------------------------------------------------- the state
VARIABLES
    source,     \* the session's pose source
    cls,        \* the class of the analyzer instance, "None" while there is none
    self,       \* the analyzer instance
    frame,      \* the frame handed to the last process_frame call
    raised,     \* the exception that call propagated, "" when it returned
    ret,        \* the list that call returned
    clock,      \* the pose source's clock: the last relative_time handed out
    recent,     \* is-down readings of the latest analysed frames, newest last
    held,       \* the persistent conditions that held on the latest two
                \* analysed frames, newest last
    conn,       \* the websocket connection: "none" when the analyzer is driven
                \* directly, else "idle", "main" or "closed"
    close_code, \* the code the endpoint closed the connection with, 0 for none
    event,      \* the message the endpoint handled last
    sent,       \* the JSON messages the endpoint sent while handling it
    analyzers,  \* the analyzer instances of sessions that run side by side
    returned,   \* per instance, the outcome of its last process_frame call
    fed,        \* per instance, the frame handed to that call
    alone,      \* per instance, the analyzer its frames alone lead to
    script,     \* the frames of a scripted run, <<>> when the run is free
    angle_call, \* the last calculate_angle call: its points and its result
    coaching    \* the live_coaching session of backend.py

\* the instances that run side by side, with what is recorded about them
peers == <<analyzers, returned, fed, alone>>

vars == <<source, cls, self, frame, raised, ret, clock, recent, held,
          conn, close_code, event, sent, peers, script, angle_call, coaching>>

Classes == {"PushupAnalyzer", "SquatAnalyzer"}

New(c) == IF c = "PushupAnalyzer" THEN PushupAnalyzer_init ELSE SquatAnalyzer_init

Required(c) == IF c = "PushupAnalyzer" THEN PushupLandmarks ELSE SquatLandmarks

\* A variant that keeps rep_count in one place for every instance running
\* side by side: a call works on the count the first of them left.
process_frame_shared_count(c, obj, f) ==
    LET o == IF analyzers = <<>> THEN obj
             ELSE [obj EXCEPT !.rep_count = analyzers[1].rep_count]
    IN IF c = "PushupAnalyzer" THEN Pushup_process_frame(o, f)
       ELSE Squat_process_frame(o, f)

process_frame(c, obj, f) ==
    IF c = "PushupAnalyzer" THEN Pushup_process_frame(obj, f)
    ELSE Squat_process_frame(obj, f)

\* The frame carried every landmark its exercise requires, with x and y.
FullyLandmarked(c, f) ==
    /\ f.has_landmarks
    /\ \A i \in DOMAIN Required(c) : get_landmark(f.landmarks, Required(c)[i])

\* The frame's landmarks mapping omits a required landmark.
MissesLandmark(c, f) ==
    /\ f.has_landmarks
    /\ \E i \in DOMAIN Required(c) : f.landmarks[Required(c)[i]] = "absent"

LastN(seq, n) ==
    IF Len(seq) <= n THEN seq ELSE SubSeq(seq, Len(seq) - n + 1, Len(seq))

\* The readings of the frames whose counters were updated: a push-up frame
\* that reached the frame buffer logic appends its is-down reading.
Reading(c, f, out) ==
    IF c = "PushupAnalyzer" /\ out.raised = "" /\ FullyLandmarked(c, f)
    THEN LastN(Append(recent, IsDown(out.self.smoothed_elbow_angle)), FRAME_BUFFER)
    ELSE recent

\* The messages of the persistent conditions that hold on frame f: the
\* conditions of the body straightness check and the elbow flare check.
PersistentConditions(f) ==
    (IF f.body_angle < body_straight_angle_min THEN {BackMsg} ELSE {})
    \cup (IF f.elbow_flare_angle > elbow_flare_angle_max THEN {FlareMsg} ELSE {})

\* A push-up frame that reached the two checks appends its conditions.
Holding(c, f, out) ==
    IF c = "PushupAnalyzer" /\ out.raised = "" /\ FullyLandmarked(c, f)
    THEN LastN(Append(held, PersistentConditions(f)), 2)
    ELSE held

NoEvent == [kind |-> "", frame_id |-> None]

InitCall ==
    /\ frame = NoFrame
    /\ raised = ""
    /\ ret = <<>>
    /\ clock = 0
    /\ recent = <<>>
    /\ held = <<>>
    /\ close_code = 0
    /\ event = NoEvent
    /\ sent = <<>>

\* No instance runs beside the session's analyzer.
NoPeers ==
    /\ analyzers = <<>>
    /\ returned = <<>>
    /\ fed = <<>>
    /\ alone = <<>>

\* An analyzer constructed and driven by direct calls, as the example runs
\* at the end of pushup_analyzer.py and squat_analyzer.py do.
Init ==
    /\ source \in Sources
    /\ cls \in Classes
    /\ self = New(cls)
    /\ conn = "none"
    /\ InitCall
    /\ NoPeers
    /\ script = <<>>
    /\ angle_call = NoAngleCall
    /\ coaching = NoCoaching

\* One process_frame call on the instance, with outcome out.
Called(f, out) ==
    /\ self.frame_count < SessionFrames(source)
    /\ self' = out.self
    /\ raised' = out.raised
    /\ ret' = out.ret
    /\ frame' = f
    /\ clock' = IF f.has_relative_time THEN f.relative_time ELSE clock
    /\ recent' = Reading(cls, f, out)
    /\ held' = Holding(cls, f, out)
    /\ UNCHANGED <<source, cls, peers>>

Call(f) ==
    /\ conn = "none"
    /\ Called(f, process_frame(cls, self, f))
    /\ UNCHANGED <<conn, close_code, event, sent, script, angle_call, coaching>>

PushupCall == cls = "PushupAnalyzer" /\ \E f \in Frames(source, clock) : Call(f)

SquatCall == cls = "SquatAnalyzer" /\ \E f \in Frames(source, clock) : Call(f)

Next == PushupCall \/ SquatCall

Spec == Init /\ [][Next]_vars

\* ------------------------------------------------------------- main.py
\* A variant of the factory with an entry for every exercise name.
ANALYZER_CLASSES_any ==
    [pushups |-> "PushupAnalyzer", squats |-> "SquatAnalyzer",
     lunges |-> "SquatAnalyzer"]

\* ANALYZER_CLASSES
ANALYZER_CLASSES == [pushups |-> "PushupAnalyzer", squats |-> "SquatAnalyzer"]

\* The exercise names a client may put in a 'start' message.
Exercises == {"pushups", "squats", "lunges"}

\* The frame_id values a client may send; None is an absent frame_id.
FrameIds == {None, 0, 1}

\* A variant that writes a message_id of 0 as -1, as frame_id or -1 would.
Json_or_minus1(kind, exercise, message, message_id) ==
    [kind |-> kind, exercise |-> exercise, message |-> message,
     message_id |-> IF message_id = 0 THEN -1 ELSE message_id]

\* A JSON message the endpoint sends: {"type": ...} for ping and pong,
\* {"status": ..., "exercise" or "message": ...} for started and error,
\* {"message": ..., "message_id": ...} for the answer to a frame message.
\* message holds the items that " ".join put into the text.
Json(kind, exercise, message, message_id) ==
    [kind |-> kind, exercise |-> exercise, message |-> message,
     message_id |-> message_id]

Handled(kind, frame_id) == [kind |-> kind, frame_id |-> frame_id]

\* A session over the websocket: accepted, no analyzer yet.
InitWs ==
    /\ source \in {"landmarks", "mixed"}
    /\ cls = "None"
    /\ self = <<>>
    /\ conn = "idle"
    /\ InitCall
    /\ NoPeers
    /\ script = <<>>
    /\ angle_call = NoAngleCall
    /\ coaching = NoCoaching

Untouched ==
    UNCHANGED <<source, cls, self, frame, raised, ret, clock, recent, held, peers,
                script, angle_call, coaching>>

\* Handling a message that neither creates nor calls the analyzer.
Answer(kind, frame_id, msgs) ==
    /\ event' = Handled(kind, frame_id)
    /\ sent' = msgs
    /\ UNCHANGED <<conn, close_code>>
    /\ Untouched

\* STAGE 1: the idle loop
IdleTimeout ==
    conn = "idle" /\ Answer("timeout", None, <<Json("ping", "", <<>>, None)>>)

IdleNonJson == conn = "idle" /\ Answer("non-json", None, <<>>)

IdlePing ==
    conn = "idle" /\ Answer("ping", None, <<Json("pong", "", <<>>, None)>>)

IdleUnexpected == conn = "idle" /\ Answer("unexpected", None, <<>>)

IdleStart ==
    /\ conn = "idle"
    /\ \E exercise_type \in Exercises :
         IF exercise_type \in DOMAIN ANALYZER_CLASSES
         THEN /\ cls' = ANALYZER_CLASSES[exercise_type]
              /\ self' = New(cls')
              /\ conn' = "main"
              /\ event' = Handled("start", None)
              /\ sent' = <<Json("started", exercise_type, <<>>, None)>>
              /\ UNCHANGED <<source, frame, raised, ret, clock, recent, held,
                             close_code, peers, script, angle_call, coaching>>
         ELSE Answer("start", None, <<Json("error", exercise_type, <<>>, None)>>)

\* receive_text raises WebSocketDisconnect in either loop
Disconnect ==
    /\ conn \in {"idle", "main"}
    /\ conn' = "closed"
    /\ event' = Handled("disconnect", None)
    /\ sent' = <<>>
    /\ UNCHANGED close_code
    /\ Untouched

\* STAGE 2: the main loop
MainTimeout ==
    /\ conn = "main"
    /\ conn' = "closed"
    /\ event' = Handled("timeout", None)
    /\ sent' = <<>>
    /\ UNCHANGED close_code
    /\ Untouched

MainNonJson == conn = "main" /\ Answer("non-json", None, <<>>)

MainPing ==
    conn = "main" /\ Answer("ping", None, <<Json("pong", "", <<>>, None)>>)

\* frame_id or -1
FrameIdOrMinus1(frame_id) == IF frame_id = None \/ frame_id = 0 THEN -1 ELSE frame_id

\* not all([frame_id is not None, frame_data_for_analyzer])
MainInvalid ==
    /\ conn = "main"
    /\ \E frame_id \in FrameIds, has_frame \in BOOLEAN :
         /\ ~(frame_id # None /\ has_frame)
         /\ Answer("invalid", frame_id,
                   <<Json("feedback", "", <<Str("Invalid frame format")>>,
                          FrameIdOrMinus1(frame_id))>>)

\* A variant that handles 'start' as the idle loop does.
MainStart_restarts ==
    /\ conn = "main"
    /\ \E exercise_type \in DOMAIN ANALYZER_CLASSES :
         /\ cls' = ANALYZER_CLASSES[exercise_type]
         /\ self' = New(cls')
         /\ event' = Handled("start", None)
         /\ sent' = <<Json("started", exercise_type, <<>>, None)>>
         /\ UNCHANGED <<source, frame, raised, ret, clock, recent, held, conn,
                        close_code, peers, script, angle_call, coaching>>

\* A 'start' message in the main loop: it has no frame_id and no frame, so it
\* takes the invalid-frame branch.
MainStart ==
    /\ conn = "main"
    /\ Answer("start", None,
              <<Json("feedback", "", <<Str("Invalid frame format")>>,
                     FrameIdOrMinus1(None))>>)

\* " ".join(feedback_list): TRUE when it raises TypeError, which it does for
\* an item that is not a str.
JoinRaises(list) == \E i \in DOMAIN list : list[i].type # "str"

feedback_message(list) == IF list # <<>> THEN list ELSE <<Str("Good form.")>>

\* A message with a frame_id and a non-empty frame: the analyzer is called.
\* An exception from the call or from the join reaches except Exception,
\* which closes the connection with code 1011.
MainFrame ==
    /\ conn = "main"
    /\ \E frame_id \in FrameIds \ {None}, f \in Frames(source, clock) :
         LET out == process_frame(cls, self, f)
             failed == out.raised # "" \/ JoinRaises(out.ret)
         IN /\ Called(f, out)
            /\ UNCHANGED <<script, angle_call, coaching>>
            /\ event' = Handled("frame", frame_id)
            /\ conn' = IF failed THEN "closed" ELSE "main"
            /\ close_code' = IF failed THEN 1011 ELSE 0
            /\ sent' = IF failed THEN <<>>
                       ELSE <<Json("feedback", "", feedback_message(out.ret), frame_id)>>

NextWs ==
    \/ IdleTimeout \/ IdleNonJson \/ IdlePing \/ IdleUnexpected \/ IdleStart
    \/ Disconnect
    \/ MainTimeout \/ MainNonJson \/ MainPing \/ MainInvalid \/ MainStart
    \/ MainFrame

SpecWs == InitWs /\ [][NextWs]_vars

\* ------------------------------------------- instances side by side
\* The calls each instance of a side-by-side run receives.
MaxPairFrames == 9

Instances == {1, 2}

\* The outcome of a call, as its caller sees it.
Outcome(out) == [raised |-> out.raised, ret |-> out.ret]

NoOutcome == [raised |-> "", ret |-> <<>>]

\* The session driven by direct calls is not part of a side-by-side run.
InitSolo ==
    /\ self = New(cls)
    /\ conn = "none"
    /\ InitCall

Solo ==
    UNCHANGED <<source, cls, self, frame, raised, ret, clock, recent, held,
                conn, close_code, event, sent, script, angle_call, coaching>>

\* Fully-landmarked frames with elbow angle e, stamped now or later.
FormFrames(e, now) ==
    { MkFrame(TRUE, TRUE, AllOk, e, b, fl, t) :
        b \in BodyAngles, fl \in FlareAngles, t \in {u \in Times : u >= now} }

\* The frame with elbow angle e of the reference run: straight back, tucked
\* elbows, the clock standing at 0.
ReferenceFrame(e) == GoodFrame(e, 0)

\* Two fresh PushupAnalyzer instances.
InitPair ==
    /\ source = "mixed"
    /\ cls = "PushupAnalyzer"
    /\ InitSolo
    /\ analyzers = [i \in Instances |-> New(cls)]
    /\ returned = [i \in Instances |-> NoOutcome]
    /\ fed = [i \in Instances |-> NoFrame]
    /\ alone = <<>>
    /\ script = <<>>
    /\ angle_call = NoAngleCall
    /\ coaching = NoCoaching

\* Each instance receives its next frame, the two frames with the same elbow
\* angle.  The first instance's frame has whatever back angle, flare angle
\* and time stamp; the second's is the reference frame, so that two runs
\* with the same elbow angles agree with each other when each agrees with
\* the reference run.
PairCall ==
    /\ analyzers[1].frame_count < MaxPairFrames
    /\ \E e \in ElbowAngles :
         \E f1 \in FormFrames(e, fed[1].relative_time),
            f2 \in {ReferenceFrame(e)} :
           LET out1 == process_frame(cls, analyzers[1], f1)
               out2 == process_frame(cls, analyzers[2], f2)
           IN /\ analyzers' = <<out1.self, out2.self>>
              /\ returned' = <<Outcome(out1), Outcome(out2)>>
              /\ fed' = <<f1, f2>>
    /\ UNCHANGED alone
    /\ Solo

SpecPair == InitPair /\ [][PairCall]_vars

\* Two fresh instances of one class; the second is fed the frames of the
\* first, each one after the first has processed it.
InitTwin ==
    /\ source \in Sources
    /\ cls \in Classes
    /\ InitSolo
    /\ analyzers = [i \in Instances |-> New(cls)]
    /\ returned = [i \in Instances |-> NoOutcome]
    /\ fed = [i \in Instances |-> NoFrame]
    /\ alone = <<>>
    /\ script = <<>>
    /\ angle_call = NoAngleCall
    /\ coaching = NoCoaching

\* Instance i processes frame f.
PeerCall(i, f) ==
    LET out == process_frame(cls, analyzers[i], f)
    IN /\ analyzers' = [analyzers EXCEPT ![i] = out.self]
       /\ returned' = [returned EXCEPT ![i] = Outcome(out)]
       /\ fed' = [fed EXCEPT ![i] = f]

TwinFirst ==
    /\ analyzers[1].frame_count = analyzers[2].frame_count
    /\ analyzers[1].frame_count < SessionFrames(source)
    /\ \E f \in Frames(source, fed[1].relative_time) : PeerCall(1, f)
    /\ UNCHANGED alone
    /\ Solo

TwinSecond ==
    /\ analyzers[2].frame_count < analyzers[1].frame_count
    /\ PeerCall(2, fed[1])
    /\ UNCHANGED alone
    /\ Solo

NextTwin == TwinFirst \/ TwinSecond

SpecTwin == InitTwin /\ [][NextTwin]_vars

\* Two websocket sessions served side by side.  The variable analyzer is
\* local to websocket_endpoint, so each connection has one of its own:
\* Slot(i) is where connection i keeps its analyzer.
NoAnalyzer == [frame_count |-> None]

\* A variant with one module-level analyzer that every connection uses.
Slot_shared(i) == 1

Slot(i) == i

\* The elbow angle of a session's k-th frame: down for FRAME_BUFFER frames,
\* then up.
SessionElbow(k) == IF k <= FRAME_BUFFER THEN 70 ELSE 180

\* The frames a session may send as its k-th: any back angle.
SessionFrameSet(k) ==
    { MkFrame(TRUE, TRUE, AllOk, SessionElbow(k), b, 45, 0) : b \in BodyAngles }

InitSessions ==
    /\ source = "form"
    /\ cls \in Classes
    /\ InitSolo
    /\ analyzers = [i \in Instances |-> NoAnalyzer]
    /\ returned = [i \in Instances |-> NoOutcome]
    /\ fed = [i \in Instances |-> NoFrame]
    /\ alone = [i \in Instances |-> NoAnalyzer]
    /\ script = <<>>
    /\ angle_call = NoAngleCall
    /\ coaching = NoCoaching

\* analyzer = analyzer_class(), on the 'start' message of connection i
SessionStart(i) ==
    /\ alone[i] = NoAnalyzer
    /\ analyzers' = [analyzers EXCEPT ![Slot(i)] = New(cls)]
    /\ alone' = [alone EXCEPT ![i] = New(cls)]
    /\ UNCHANGED <<returned, fed>>
    /\ Solo

\* analyzer.process_frame(frame_data_for_analyzer), on a frame message of
\* connection i
SessionFrame(i) ==
    /\ alone[i] # NoAnalyzer
    /\ alone[i].frame_count < MaxPairFrames
    /\ \E f \in SessionFrameSet(alone[i].frame_count + 1) :
         LET out == process_frame(cls, analyzers[Slot(i)], f)
         IN /\ analyzers' = [analyzers EXCEPT ![Slot(i)] = out.self]
            /\ returned' = [returned EXCEPT ![i] = Outcome(out)]
            /\ fed' = [fed EXCEPT ![i] = f]
            /\ alone' = [alone EXCEPT ![i] = process_frame(cls, alone[i], f).self]
    /\ Solo

NextSessions == \E i \in Instances : SessionStart(i) \/ SessionFrame(i)

SpecSessions == InitSessions /\ [][NextSessions]_vars

\* --------------------------------------------------------- scripted runs
\* A fresh analyzer fed a fixed list of frames, one per call, the way the
\* example runs at the end of pushup_analyzer.py and squat_analyzer.py do.
Repeat(x, n) == [i \in 1..n |-> x]

\* Frames with straight back and tucked elbows for a list of elbow angles,
\* the k-th stamped stamp[k].
GoodFrames(angles, stamp) ==
    [k \in DOMAIN angles |-> GoodFrame(angles[k], stamp[k])]

\* A push-up cycle: n frames up, n frames down, n frames up again, with
\* relative_time spanning span tenths of a second.
Cycle(up, down, n, span) ==
    LET angles == Repeat(up, n) \o Repeat(down, n) \o Repeat(up, n)
    IN GoodFrames(angles, [k \in 1..(3 * n) |-> ((k - 1) * span) \div (3 * n - 1)])

CycleScripts ==
    { Cycle(up, down, n, 20) :
        up \in {170, 180}, down \in {60, 70, 90},
        n \in FRAME_BUFFER..(MaxScriptFrames \div 3) }

\* Two push-up attempts, the first bottoming at d1 and the second at d2:
\* each dwells FRAME_BUFFER + 1 frames at its bottom and rises to 180 for
\* the rest of its half of the run, half a second passing between frames.
Attempts(d1, d2) ==
    LET dwell == FRAME_BUFFER + 1
        rise == MaxScriptFrames \div 2 - dwell
        angles == Repeat(d1, dwell) \o Repeat(180, rise)
                  \o Repeat(d2, dwell) \o Repeat(180, rise)
    IN GoodFrames(angles, [k \in DOMAIN angles |-> (k - 1) * 5])

\* bottoms just below, at and above the depth threshold
DepthAngles == {depth_threshold_angle - 1, depth_threshold_angle, 120}

AttemptScripts == { Attempts(d1, d2) : d1 \in DepthAngles, d2 \in DepthAngles }

\* A descent whose frames differ in depth, then a shallow attempt: the
\* FRAME_BUFFER - 1 frames before the stage goes down carry the elbow angle
\* early, the frame that takes it down carries first, a frame that lost its
\* wrist follows (the arm was at 60 degrees), then a frame with rest and the
\* rise; the second attempt stays at 120. One second passes between frames.
Descent(early, first, rest) ==
    LET lost == MkFrame(TRUE, TRUE, [AllOk EXCEPT !["right_wrist"] = "absent"],
                        60, 170, 45, 0)
        one == GoodFrames(Repeat(early, FRAME_BUFFER - 1) \o <<first>>,
                          [k \in 1..FRAME_BUFFER |-> 0])
               \o <<lost>>
               \o GoodFrames(<<rest>> \o Repeat(180, 2 * FRAME_BUFFER),
                             [k \in 1..(2 * FRAME_BUFFER + 1) |-> 0])
        two == GoodFrames(Repeat(120, FRAME_BUFFER + 1) \o Repeat(180, FRAME_BUFFER + 1),
                          [k \in 1..(2 * FRAME_BUFFER + 2) |-> 0])
        run == one \o two
    IN [k \in DOMAIN run |-> [run[k] EXCEPT !.relative_time = k * 10]]

DescentScripts ==
    { Descent(early, first, rest) :
        early \in {90, 120}, first \in {90, 120}, rest \in {90, 120} }

\* A frame for SquatAnalyzer with every landmark: the average knee angle
\* and, in hundredths of the image height, the average hip and knee y.
SquatPose(avg_knee_angle, avg_hip_y, avg_knee_y, t) ==
    [has_landmarks |-> TRUE, has_relative_time |-> TRUE, landmarks |-> AllOk,
     avg_knee_angle |-> avg_knee_angle, avg_hip_y |-> avg_hip_y,
     avg_knee_y |-> avg_knee_y, relative_time |-> t]

\* up_pose of the simulated squat analysis: legs straight, hip above knee
UpPose(t) == SquatPose(180, 50, 70, t)

\* A squat: dwell frames down with the given knee angle and hip height, then
\* FRAME_BUFFER frames up, one second passing between frames.
Squat(avg_knee_angle, avg_hip_y, dwell) ==
    [k \in 1..(dwell + FRAME_BUFFER) |->
        IF k <= dwell THEN SquatPose(avg_knee_angle, avg_hip_y, 70, (k - 1) * 10)
        ELSE UpPose((k - 1) * 10)]

\* Squats of good depth: the knee angle below rep_threshold_angle (160) and
\* the hip at or below knee height for the whole dwell.
GoodSquats ==
    { Squat(avg_knee_angle, avg_hip_y, dwell) :
        avg_knee_angle \in {90, 120}, avg_hip_y \in {70, 80},
        dwell \in FRAME_BUFFER..(MaxScriptFrames \div 4) }

\* A squat frame with the horizontal distances between the knees and between
\* the ankles, in hundredths of the image width.
KneePose(pose, knee_dist, ankle_dist) ==
    pose @@ [knee_dist |-> knee_dist, ankle_dist |-> ankle_dist]

\* knee_dist / ankle_dist < knee_caving_threshold_ratio (0.8)
Caving(pose) == pose.ankle_dist > 0 /\ 10 * pose.knee_dist < 8 * pose.ankle_dist

\* A squat whose knees cave in for the whole dwell, as in down_pose_caving
\* (knees at x 0.45 and 0.55, ankles at 0.4 and 0.6), then FRAME_BUFFER
\* frames of up_pose.
CavingSquat(avg_knee_angle, dwell) ==
    [k \in 1..(dwell + FRAME_BUFFER) |->
        IF k <= dwell
        THEN KneePose(SquatPose(avg_knee_angle, 60, 70, (k - 1) * 10), 10, 20)
        ELSE KneePose(UpPose((k - 1) * 10), 20, 20)]

CavingSquats ==
    { CavingSquat(avg_knee_angle, dwell) :
        avg_knee_angle \in {90, 120},
        dwell \in (FRAME_BUFFER + 1)..(MaxScriptFrames \div 4) }

Scripts(c) ==
    IF c = "PushupAnalyzer"
    THEN CycleScripts \cup AttemptScripts \cup DescentScripts
    ELSE GoodSquats \cup CavingSquats

InitScript ==
    /\ source = "script"
    /\ cls \in Classes
    /\ InitSolo
    /\ NoPeers
    /\ script \in Scripts(cls)
    /\ angle_call = NoAngleCall
    /\ coaching = NoCoaching

\* for frame in workout_clip: analyzer.process_frame(frame)
ScriptCall ==
    /\ conn = "none"
    /\ self.frame_count < Len(script)
    /\ LET f == script[self.frame_count + 1]
       IN Called(f, process_frame(cls, self, f))
    /\ UNCHANGED <<conn, close_code, event, sent, script, angle_call, coaching>>

SpecScript == InitScript /\ [][ScriptCall]_vars

\* ------------------------------------------------------ calculate_angle
\* An analyzer on which calculate_angle is called directly with three points.
InitAngle ==
    /\ source = "script"
    /\ cls = "PushupAnalyzer"
    /\ InitSolo
    /\ NoPeers
    /\ script = <<>>
    /\ angle_call = NoAngleCall
    /\ coaching = NoCoaching

\* calculate_angle reads and writes no attribute, so a behaviour makes one
\* call.
CalculateAngle ==
    /\ angle_call = NoAngleCall
    /\ \E a \in Points, b \in Points, c \in Points :
          angle_call' = [a |-> a, b |-> b, c |-> c, ret |-> calculate_angle(a, b, c)]
    /\ UNCHANGED <<source, cls, self, frame, raised, ret, clock, recent, held,
                   conn, close_code, event, sent, peers, script, coaching>>

SpecAngle == InitAngle /\ [][CalculateAngle]_vars

\* ---------------------------------------------------------- backend.py
\* The live_coaching endpoint: a handshake message, then binary video frames
\* until an 'end_session' text message, then the summary streamed back.
MaxVideoFrames == 2
MaxChunks == 2

\* message["bytes"] of the binary messages a client sends
VideoFrames == {"jpeg-1", "jpeg-2"}

\* The chunks of a response stream: chunk.text is a text, is empty, or raises
\* ValueError (a chunk without a text part).
Chunk(text, raises) == [text |-> text, raises |-> raises]
Chunks == {Chunk("Nice effort.", FALSE), Chunk("", FALSE), Chunk("", TRUE)}

RECURSIVE SeqsUpTo(_, _)
SeqsUpTo(S, n) ==
    IF n = 0 THEN {<<>>}
    ELSE LET shorter == SeqsUpTo(S, n - 1)
         IN shorter \cup { Append(q, x) : q \in shorter, x \in S }

\* What model.generate_content(..., stream=True) may hand back.
Streams == SeqsUpTo(Chunks, MaxChunks)

\* end_data.get("corrections", []): absent, a list of str, or a list holding
\* an item that is not a str, on which "\n- ".join raises TypeError.
Corrections == {"absent", "strs", "not-strs"}

ErrorNoFrames == "[ERROR] No video frames were received to generate a summary."
ErrorServerSide == "[ERROR] A server-side error occurred: ..."
EndOfSummary == "[END_OF_SUMMARY]"

\* websocket.accept() done, video_frames = [].  pc is the endpoint's position,
\* handled the message it handled last, out the texts it sent; ended, calls
\* and response record that the end command arrived, how often
\* generate_content was called and the stream it returned.
live_coaching_init ==
    [pc |-> "handshake", video_frames |-> <<>>, handled |-> "accept",
     ended |-> FALSE, calls |-> 0, response |-> <<>>, stream |-> <<>>,
     out |-> <<>>, close_code |-> 0]

\* The session ends: the finally block closes it when still connected.
Finished(c, handled) == [c EXCEPT !.pc = "done", !.handled = handled]

\* except Exception: the error is sent to a client that is still connected
Failed(c, handled) ==
    [Finished(c, handled) EXCEPT !.out = Append(@, ErrorServerSide)]

\* except json.JSONDecodeError: close(code=1003)
Undecodable(c) == [Finished(c, "non-json") EXCEPT !.close_code = 1003]

InitCoach ==
    /\ source = "script"
    /\ cls = "None"
    /\ self = <<>>
    /\ conn = "none"
    /\ InitCall
    /\ NoPeers
    /\ script = <<>>
    /\ angle_call = NoAngleCall
    /\ coaching = live_coaching_init

Elsewhere ==
    UNCHANGED <<source, cls, self, frame, raised, ret, clock, recent, held,
                conn, close_code, event, sent, peers, script, angle_call>>

\* 1. Initial Handshake: receive_text and json.loads; a binary message or a
\* JSON text that is not an object raises in the handshake.
Handshake ==
    /\ coaching.pc = "handshake"
    /\ \/ coaching' = [coaching EXCEPT !.pc = "loop", !.handled = "handshake"]
       \/ coaching' = Undecodable(coaching)
       \/ coaching' = Failed(coaching, "not-an-object")
    /\ Elsewhere

\* video_frames.append(message["bytes"])
ReceiveBytes ==
    /\ coaching.pc = "loop"
    /\ Len(coaching.video_frames) < MaxVideoFrames
    /\ \E bytes \in VideoFrames :
         coaching' = [coaching EXCEPT !.video_frames = Append(@, bytes),
                                      !.handled = "bytes"]
    /\ Elsewhere

\* A text message that is not the end command: another action, undecodable
\* text, or JSON that is not an object.
ReceiveText ==
    /\ coaching.pc = "loop"
    /\ \/ coaching' = [coaching EXCEPT !.handled = "text"]
       \/ coaching' = Undecodable(coaching)
       \/ coaching' = Failed(coaching, "not-an-object")
    /\ Elsewhere

\* The client goes away: receive_text raises WebSocketDisconnect, and
\* receive or send_text on the gone client raises with nobody to tell.
ClientDisconnect ==
    /\ coaching.pc \in {"handshake", "loop", "streaming"}
    /\ coaching' = Finished(coaching, "disconnect")
    /\ Elsewhere

\* A variant without the test of video_frames.
HasFrames_always(c) == TRUE

\* if not video_frames: ... return
HasFrames(c) == c.video_frames # <<>>

\* The end command: the loop breaks and 3. Generate Summary runs up to the
\* first chunk of the response stream.
EndSession ==
    /\ coaching.pc = "loop"
    /\ \E corrections \in Corrections :
         LET c == [coaching EXCEPT !.ended = TRUE]
         IN IF ~HasFrames(c)
            THEN coaching' = [Finished(c, "end_session") EXCEPT
                                !.out = Append(@, ErrorNoFrames)]
            ELSE IF corrections = "not-strs"
            THEN coaching' = Failed(c, "end_session")
            ELSE LET called == [c EXCEPT !.calls = @ + 1]
                 IN \/ coaching' = Failed(called, "end_session")
                    \/ \E response_stream \in Streams :
                         coaching' = [called EXCEPT !.pc = "streaming",
                                                    !.handled = "end_session",
                                                    !.response = response_stream,
                                                    !.stream = response_stream]
    /\ Elsewhere

\* for chunk in response_stream: if chunk.text: send_text(chunk.text)
StreamChunk ==
    /\ coaching.pc = "streaming"
    /\ coaching.stream # <<>>
    /\ LET chunk == Head(coaching.stream)
           rest == [coaching EXCEPT !.stream = Tail(@), !.handled = "chunk"]
       IN coaching' = IF chunk.raises THEN Failed(rest, "chunk")
                      ELSE IF chunk.text # ""
                      THEN [rest EXCEPT !.out = Append(@, chunk.text)]
                      ELSE rest
    /\ Elsewhere

\* send_text("[END_OF_SUMMARY]")
StreamEnd ==
    /\ coaching.pc = "streaming"
    /\ coaching.stream = <<>>
    /\ coaching' = [Finished(coaching, "end") EXCEPT !.out = Append(@, EndOfSummary)]
    /\ Elsewhere

NextCoach ==
    \/ Handshake \/ ReceiveBytes \/ ReceiveText \/ ClientDisconnect
    \/ EndSession \/ StreamChunk \/ StreamEnd

SpecCoach == InitCoach /\ [][NextCoach]_vars

\* ------------------------------------------------------------- claims
Pushup == cls = "PushupAnalyzer"

\* The last step was a process_frame call that handed over a frame missing
\* a required landmark.
MissedLandmark == self.frame_count > 0 /\ MissesLandmark(cls, frame)

AllAre(seq, v) == Len(seq) = FRAME_BUFFER /\ \A i \in DOMAIN seq : seq[i] = v

IsPrefix(a, b) == Len(a) <= Len(b) /\ SubSeq(b, 1, Len(a)) = a

NoDuplicates(seq) == \A i, j \in DOMAIN seq : seq[i] = seq[j] => i = j

\* C1: over every process_frame call, on either analyzer and for any frame,
\* rep_count stays or grows by exactly 1; it never decreases.
C1_RepCountStep ==
    [][self'.rep_count \in {self.rep_count, self.rep_count + 1}]_vars

C1_Witness == Pushup /\ self.rep_count = 1 /\ self.stage = "up"

\* C2: in PushupAnalyzer, on a frame where stage goes 'down' to 'up' either
\* rep_count grows by 1 and 'Go deeper on your push-ups!' is not returned, or
\* the message is returned and rep_count is unchanged; on every other frame
\* rep_count is unchanged and the message is not returned.
C2_CountOnlyAtDownUp ==
    [][Pushup =>
        LET deeper == DeeperMsg \in Range(ret')
            same == self'.rep_count = self.rep_count
            plus1 == self'.rep_count = self.rep_count + 1
        IN IF self.stage = "down" /\ self'.stage = "up"
           THEN (plus1 /\ ~deeper) \/ (deeper /\ same)
           ELSE same /\ ~deeper]_vars

C2_Witness ==
    Pushup /\ DeeperMsg \in Range(ret) /\ self.rep_count = 0 /\ self.stage = "up"

\* C3: in PushupAnalyzer, stage goes 'up' to 'down' only on a fully-landmarked
\* frame that completes FRAME_BUFFER consecutive analysed frames whose is-down
\* reading was true, and 'down' to 'up' only on one that completes
\* FRAME_BUFFER consecutive analysed frames whose reading was false; frames
\* that miss a landmark are not counted in the run.
C3_DebouncedStage ==
    [][Pushup =>
        /\ (self.stage = "up" /\ self'.stage = "down")
              => FullyLandmarked(cls, frame') /\ AllAre(recent', TRUE)
        /\ (self.stage = "down" /\ self'.stage = "up")
              => FullyLandmarked(cls, frame') /\ AllAre(recent', FALSE)]_vars

\* The FRAME_BUFFER-th is-down reading arrives on call FRAME_BUFFER + 1 and
\* fires the transition: every analysed frame read 70 degrees, so one of the
\* earlier calls handed over a frame that was skipped.
C3_Witness ==
    /\ Pushup /\ self.stage = "down" /\ AllAre(recent, TRUE)
    /\ self.frame_count = FRAME_BUFFER + 1 /\ self.down_frames = FRAME_BUFFER
    /\ FullyLandmarked(cls, frame)
    /\ self.smoothed_elbow_angle = 70 * Scale

\* C4: in PushupAnalyzer, once the is-down reading was true on FRAME_BUFFER
\* consecutive analysed frames stage is 'down', and once it was false on
\* FRAME_BUFFER consecutive analysed frames stage is 'up'; when that run of
\* false readings started in stage 'down', its last frame evaluated the rep
\* attempt (counted it or returned the depth message).
C4_TransitionFires ==
    [][Pushup =>
        /\ AllAre(recent', TRUE) => self'.stage = "down"
        /\ AllAre(recent', FALSE) => self'.stage = "up"
        /\ (self.stage = "down" /\ AllAre(recent', FALSE))
              => \/ self'.rep_count = self.rep_count + 1
                 \/ DeeperMsg \in Range(ret')]_vars

C4_Witness ==
    /\ Pushup /\ self.stage = "down" /\ self.frame_count = FRAME_BUFFER
    /\ AllAre(recent, TRUE)

\* C5: a frame whose landmarks mapping omits a required landmark (and that is
\* complete otherwise) makes process_frame return an empty list, on either
\* analyzer.
C5_MissingReturnsEmpty ==
    (MissedLandmark /\ frame.has_relative_time) => raised = "" /\ ret = <<>>

\* C6: a frame whose landmarks mapping omits a required landmark leaves
\* rep_count, stage, up_frames and down_frames as they were, on either
\* analyzer and from every state.
C6_MissingKeepsCounters ==
    [][MissesLandmark(cls, frame') =>
        /\ self'.rep_count = self.rep_count
        /\ self'.stage = self.stage
        /\ self'.up_frames = self.up_frames
        /\ self'.down_frames = self.down_frames]_vars

C6_Witness ==
    /\ Pushup /\ MissedLandmark
    /\ self.stage = "down" /\ self.down_frames = FRAME_BUFFER

\* C7 as stated: a frame that misses a required landmark leaves every field
\* of the analyzer, frame_count included, as it was.
C7_MissingMutatesNothing ==
    [][MissesLandmark(cls, frame') => self' = self]_vars

\* C7 as amended: such a frame increases frame_count by 1 and, in
\* PushupAnalyzer when the frame carries relative_time, sets good_form_bool;
\* every other field is as it was.
C7_MissingMutatesOnlyFrameCount ==
    [][MissesLandmark(cls, frame') =>
        /\ self'.frame_count = self.frame_count + 1
        /\ IF Pushup
           THEN self' = [self EXCEPT !.frame_count = @ + 1,
                                     !.good_form_bool =
                                         IF frame'.has_relative_time THEN TRUE ELSE @]
           ELSE self' = [self EXCEPT !.frame_count = @ + 1]]_vars

C7_Witness ==
    /\ Pushup /\ MissedLandmark /\ self.frame_count > FRAME_BUFFER
    /\ self.stage = "down" /\ self.smoothed_elbow_angle # None
    /\ self.feedback_log # <<>>

\* C8: a frame that misses a required landmark (and is complete otherwise)
\* never ends the session: when
\* the endpoint hands one to the session's analyzer the connection stays open
\* and the frame is answered.
C8_MissingFrameKeepsSession ==
    (event.kind = "frame" /\ MissesLandmark(cls, frame) /\ frame.has_relative_time)
        => conn = "main" /\ close_code = 0 /\ sent # <<>>

\* C9: process_frame propagates no exception, whatever data the frame
\* lacks: every call returns a list.
C9_NeverPropagates == raised = ""

\* C10: over every process_frame call the log before the call is a prefix of
\* the log after it, and the log after it holds no string twice.
C10_LogAppendOnlyUnique ==
    [][/\ IsPrefix(self.feedback_log, self'.feedback_log)
       /\ NoDuplicates(self'.feedback_log)]_vars

C10_Witness ==
    /\ Pushup /\ ret = <<BackMsg>>
    /\ Len(self.feedback_log) >= 2 /\ self.feedback_log[1] = BackMsg

\* C11: when a process_frame call returns, every string in the returned list
\* is in feedback_log (so the log holds every string the session returned).
C11_ReturnedStringsLogged ==
    \A i \in DOMAIN ret :
        ret[i].type = "str" => ret[i] \in Range(self.feedback_log)

\* The last analysed frame, if any, had the condition of message m.
HeldBefore(m) == held # <<>> /\ m \in held[Len(held)]

\* A process_frame call of PushupAnalyzer on a frame that reaches the checks.
Analysed(f) == Pushup /\ FullyLandmarked(cls, f) /\ f.has_relative_time

\* C12: in PushupAnalyzer, on an analysed frame on which a persistent
\* condition holds, its message is returned exactly when the frame is the
\* first of its run, that is when the condition did not hold on the analysed
\* frame before it; the other check's outcome makes no difference.
C12_OncePerRun ==
    [][Analysed(frame') =>
        \A m \in PersistentConditions(frame') :
            m \in Range(ret') <=> ~HeldBefore(m)]_vars

\* C13: in PushupAnalyzer, when a persistent condition did not hold on the
\* last analysed frame, the next analysed frame on which it holds returns
\* its message, whatever was returned earlier in the session (frames that
\* are not analysed in between do not count).
C13_Rearms ==
    [][Analysed(frame') =>
        \A m \in PersistentConditions(frame') :
            (held # <<>> /\ ~HeldBefore(m)) => m \in Range(ret')]_vars

\* The back message was logged first and something else after it, it is all
\* this call returned, and the back condition did not hold on the analysed
\* frame before this one: the message returned here is a repetition.
C13_Witness ==
    /\ Pushup /\ ret = <<BackMsg>> /\ Analysed(frame)
    /\ Len(held) = 2 /\ BackMsg \notin held[1] /\ BackMsg \in held[2]
    /\ Len(self.feedback_log) >= 2 /\ self.feedback_log[1] = BackMsg

\* C14: in PushupAnalyzer, on a frame where stage goes 'down' to 'up',
\* 'Slow down your reps!' is returned exactly when the frame's relative_time
\* minus the relative_time captured at the 'up' to 'down' transition (held in
\* rep_start_time since then) is below 1.0 second, whether the rep was
\* credited or not and also for a capture at relative_time 0.
C14_SlowIffShort ==
    [][(Pushup /\ self.stage = "down" /\ self'.stage = "up") =>
        (SlowMsg \in Range(ret')
            <=> frame'.relative_time - self.rep_start_time < rep_too_fast_seconds)]_vars

\* The call instance i just received completed a rep attempt of good depth
\* in under 1.0 second.
FastDeepRep(i) ==
    /\ analyzers[i].stage = "down" /\ analyzers'[i].stage = "up"
    /\ Min(analyzers[i].min_angle_in_rep, fed'[i].elbow_angle) < depth_threshold_angle
    /\ fed'[i].relative_time - analyzers[i].rep_start_time < rep_too_fast_seconds

\* C15: two fresh PushupAnalyzer instances fed the same elbow angles with
\* whatever back angles, flare angles and time stamps have the same rep_count
\* and stage after every frame; and a rep of good depth completed in under
\* 1.0 second is counted and leaves 'Slow down your reps!' in feedback_log.
C15_CreditingNotGated ==
    [][/\ analyzers'[1].rep_count = analyzers'[2].rep_count
       /\ analyzers'[1].stage = analyzers'[2].stage
       /\ \A i \in Instances :
            FastDeepRep(i) =>
                /\ analyzers'[i].rep_count = analyzers[i].rep_count + 1
                /\ SlowMsg \in Range(analyzers'[i].feedback_log)]_vars

C18_CleanCycleCredited ==
    (Pushup /\ script = Cycle(170, 70, FRAME_BUFFER, 20)) =>
        /\ DeeperMsg \notin Range(ret) /\ SlowMsg \notin Range(ret)
        /\ self.frame_count = Len(script) => self.rep_count = 1

\* The number of times item x occurs in seq.
Count(seq, x) == Cardinality({i \in DOMAIN seq : seq[i] = x})

\* C19: in PushupAnalyzer, on the frame that ends a rep attempt, rep_count
\* grows only if the minimum raw elbow angle of the attempt is strictly below
\* 100; an attempt whose minimum is 100 or more returns 'Go deeper on your
\* push-ups!', leaves rep_count as it was, and the message is in
\* feedback_log exactly once, however many shallow attempts came before.
C19_CreditedOnlyBelowThreshold ==
    [][(Pushup /\ self.stage = "down" /\ self'.stage = "up") =>
        LET lowest == Min(self.min_angle_in_rep, frame'.elbow_angle)
        IN /\ self'.rep_count > self.rep_count => lowest < depth_threshold_angle
           /\ lowest >= depth_threshold_angle =>
                /\ DeeperMsg \in Range(ret')
                /\ self'.rep_count = self.rep_count
                /\ Count(self'.feedback_log, DeeperMsg) = 1]_vars

\* C20: a fresh SquatAnalyzer fed a squat of good depth (the average knee
\* angle below the rep threshold for at least FRAME_BUFFER frames with the
\* hip at or below knee height, then FRAME_BUFFER frames with the knee angle
\* above the threshold) never returns 'Go deeper!' and ends with rep_count 1.
C20_GoodSquatCredited ==
    (cls = "SquatAnalyzer" /\ script \in GoodSquats) =>
        /\ SquatDeeperMsg \notin Range(ret)
        /\ self.frame_count = Len(script) => self.rep_count = 1

\* C21: in SquatAnalyzer, over a squat whose knees cave in for the whole
\* dwell, 'Push your knees out!' is returned once: on the first violating
\* frame of the dwell in stage 'down' (the frame that completes the
\* FRAME_BUFFER down readings, or the one after it) and on no other frame, and
\* no other knee-position message is returned during the attempt.
C21_KneesOutOncePerRep ==
    [][(cls = "SquatAnalyzer" /\ script \in CavingSquats) =>
        LET k == self'.frame_count
            now == Range(ret') \cap {KneesOutMsg, KneesFlareMsg}
            before == Range(ret) \cap {KneesOutMsg, KneesFlareMsg}
        IN /\ k < FRAME_BUFFER => now = {}
           /\ k = FRAME_BUFFER + 1 =>
                \/ before = {KneesOutMsg} /\ now = {}
                \/ before = {} /\ now = {KneesOutMsg}
           /\ k > FRAME_BUFFER + 1 => now = {}]_vars

\* The fixed feedback vocabulary of an exercise.
FeedbackVocabulary(c) ==
    IF c = "PushupAnalyzer"
    THEN {BackMsg, FlareMsg, DeeperMsg, SlowMsg, GreatMsg}
    ELSE {KneesOutMsg, KneesFlareMsg, SquatDeeperMsg}

\* C22: for a frame that carries every landmark its exercise requires, with
\* x and y (and relative_time), process_frame returns a list holding only
\* messages of the exercise's feedback vocabulary, on either analyzer.
C22_OnlyVocabulary ==
    (self.frame_count > 0 /\ FullyLandmarked(cls, frame) /\ frame.has_relative_time)
        => /\ raised = ""
           /\ \A i \in DOMAIN ret : ret[i] \in FeedbackVocabulary(cls)

\* C23: in every reachable state of an analyzer of either class, whatever
\* calls it received (those that raised or took an except clause included),
\* stage is 'up' or 'down'; it is 'up' before the first call.
C23_StageUpOrDown ==
    /\ self.stage \in {"up", "down"}
    /\ self.frame_count = 0 => self.stage = "up"

\* In stage 'down', a call has just propagated a KeyError.
C23_Witness ==
    /\ Pushup /\ self.stage = "down" /\ raised = "KeyError"
    /\ self.frame_count > FRAME_BUFFER

\* The call on frame' ends a rep attempt with a depth or tempo fault: the
\* lowest elbow angle of the attempt is not below the depth threshold, or the
\* attempt took less than 1.0 second.
RepFault ==
    /\ self.stage = "down" /\ self'.stage = "up"
    /\ \/ Min(self.min_angle_in_rep, frame'.elbow_angle) >= depth_threshold_angle
       \/ frame'.relative_time - self.rep_start_time < rep_too_fast_seconds

\* C24: in PushupAnalyzer, an analysed frame with a back, flare, depth or
\* tempo fault (its message returned or not) returns no praise and resets the
\* streak counter; an analysed frame without fault counts one more, and the
\* one that completes 8 returns 'Great form! Keep it up!' and resets the
\* counter; no other frame returns the praise.
C24_PraiseEveryEighth ==
    [][Analysed(frame') =>
        IF PersistentConditions(frame') # {} \/ RepFault
        THEN GreatMsg \notin Range(ret') /\ self'.good_form_frames = 0
        ELSE IF self.good_form_frames + 1 = good_form_streak
        THEN GreatMsg \in Range(ret') /\ self'.good_form_frames = 0
        ELSE /\ GreatMsg \notin Range(ret')
             /\ self'.good_form_frames = self.good_form_frames + 1]_vars

\* C25: in PushupAnalyzer, every analysed frame adds 1 to down_frames and
\* zeroes up_frames when its is-down predicate is true, and adds 1 to
\* up_frames and zeroes down_frames otherwise; the two counters are never
\* both positive, and once a frame was analysed exactly one is positive.
C25_HysteresisUpdate ==
    /\ [](Pushup => /\ ~(self.up_frames > 0 /\ self.down_frames > 0)
                    /\ recent # <<>> =>
                         (self.up_frames > 0 \/ self.down_frames > 0))
    /\ [][Analysed(frame') =>
            IF IsDown(self'.smoothed_elbow_angle)
            THEN /\ self'.down_frames = self.down_frames + 1
                 /\ self'.up_frames = 0
            ELSE /\ self'.up_frames = self.up_frames + 1
                 /\ self'.down_frames = 0]_vars

\* A push-up session that counted FRAME_BUFFER up frames in a row, then
\* turned and has counted two down frames.
C25_Witness ==
    /\ Pushup /\ Analysed(frame) /\ raised = ""
    /\ self.down_frames = 2 /\ self.up_frames = 0
    /\ self.frame_count = FRAME_BUFFER + 2
    /\ recent = <<FALSE, TRUE, TRUE>>

\* C26: calculate_angle(a, b, c) is defined for all points a, b and c, the
\* degenerate a = b and b = c included, and its value lies in [0, 180]
\* degrees.
C26_AngleInRange ==
    angle_call # NoAngleCall =>
        /\ angle_call.ret >= 0
        /\ angle_call.ret <= Deg(180)

\* A call with a = b whose value is the upper end of the range.
C26_Witness ==
    /\ angle_call # NoAngleCall
    /\ angle_call.a = angle_call.b /\ angle_call.b # angle_call.c
    /\ angle_call.ret = Deg(180)

\* The analyzer after the first k frames of a scripted push-up run.  Every
\* call adds 1 to frame_count.
RECURSIVE After(_, _)
After(sc, k) ==
    IF k = 0 THEN PushupAnalyzer_init
    ELSE LET before == After(sc, k - 1)
         IN IF before.frame_count = k - 1
            THEN process_frame("PushupAnalyzer", before, sc[k]).self
            ELSE before

\* The frame of sc, among its first k, on which stage last became 'down'.
DownSince(sc, k) ==
    LET turns == { j \in 1..k : /\ After(sc, j - 1).stage = "up"
                                /\ After(sc, j).stage = "down" }
    IN CHOOSE j \in turns : \A i \in turns : i <= j

\* The least raw elbow angle of the fully-landmarked frames j..k of sc.
WindowMin(sc, j, k) ==
    LET raw == { sc[i].elbow_angle :
                   i \in { n \in j..k : FullyLandmarked("PushupAnalyzer", sc[n]) } }
    IN CHOOSE m \in raw : \A x \in raw : m <= x

\* C27: in PushupAnalyzer, while stage is 'down' min_angle_in_rep is the least
\* raw elbow angle of the fully-landmarked frames from the one on which stage
\* became 'down' through the last one, and the depth check of the frame that
\* takes stage back to 'up' decides on that minimum taken through this frame:
\* the frames of the descent before stage became 'down', the frames that
\* lost a landmark and the frames of earlier reps do not count.
C27_ExtremumWindow ==
    /\ [](Pushup /\ self.stage = "down" =>
            self.min_angle_in_rep
              = WindowMin(script, DownSince(script, self.frame_count),
                          self.frame_count))
    /\ [][(Pushup /\ self.stage = "down" /\ self'.stage = "up") =>
            LET lowest == WindowMin(script, DownSince(script, self.frame_count),
                                    self'.frame_count)
            IN /\ lowest > depth_threshold_angle =>
                    /\ DeeperMsg \in Range(ret')
                    /\ self'.rep_count = self.rep_count
               /\ lowest < depth_threshold_angle =>
                    /\ DeeperMsg \notin Range(ret')
                    /\ self'.rep_count = self.rep_count + 1]_vars

\* The first attempt of the run that descended through 90 degrees, went
\* down on a frame at 120, lost a frame and stayed at 120 has just ended: it
\* was refused.
C27_Witness ==
    /\ Pushup /\ script = Descent(90, 120, 120)
    /\ self.frame_count < Len(script) - FRAME_BUFFER
    /\ self.rep_count = 0 /\ self.stage = "up"
    /\ DeeperMsg \in Range(ret)

\* C28: in the main loop of main.py, handling a message that carries a
\* frame_id and a non-empty frame calls process_frame once, on the analyzer
\* as the message before left it and with that message's frame, and a reply
\* to it is the one message sent while it is handled and carries its
\* frame_id as message_id; handling any other message calls nothing.
C28_OneCallPerFrame ==
    [][conn = "main" =>
        IF event'.kind = "frame"
        THEN /\ event'.frame_id # None
             /\ self'.frame_count = self.frame_count + 1
             /\ self' = process_frame(cls, self, frame').self
             /\ ret' = process_frame(cls, self, frame').ret
             /\ sent' # <<>> =>
                  /\ Len(sent') = 1
                  /\ sent'[1].kind = "feedback"
                  /\ sent'[1].message_id = event'.frame_id
                  /\ sent'[1].message = feedback_message(ret')
                  /\ conn' = "main"
        ELSE self' = self /\ frame' = frame /\ ret' = ret]_vars

\* The second frame message of a connection, sent with frame_id 0, has been
\* analysed and answered.
C28_Witness ==
    /\ conn = "main" /\ event = Handled("frame", 0)
    /\ self.frame_count = 2
    /\ Len(sent) = 1 /\ sent[1].message_id = 0
    /\ sent[1].message = ret /\ ret # <<>>

\* C29: in main.py an analyzer is created only by a step that leaves the idle
\* stage, where there was none; in the main stage the analyzer's class never
\* changes and its state changes only by a process_frame call on it, and a
\* 'start' message leaves it as it is and is answered as an invalid frame.
C29_OneAnalyzerPerConnection ==
    [][/\ (cls' # cls \/ (self = <<>> /\ self' # <<>>)) =>
            conn = "idle" /\ cls = "None" /\ self = <<>>
       /\ conn # "idle" =>
            /\ cls' = cls
            /\ \/ self' = self
               \/ /\ event'.kind = "frame"
                  /\ self' = process_frame(cls, self, frame').self
       /\ (conn = "main" /\ event'.kind = "start") =>
            /\ self' = self
            /\ sent' = <<Json("feedback", "", <<Str("Invalid frame format")>>, -1)>>
            /\ conn' = "main"]_vars

\* A 'start' message arrived after two frames were analysed: the analyzer
\* still holds them.
C29_Witness ==
    /\ conn = "main" /\ event = Handled("start", None)
    /\ cls = "PushupAnalyzer" /\ self.frame_count = 2
    /\ sent = <<Json("feedback", "", <<Str("Invalid frame format")>>, -1)>>

\* C30: in main.py, while the connection is idle there is no analyzer and no
\* frame was analysed; a step leaves the idle stage for the main stage only by
\* a 'start' naming 'pushups' or 'squats', which creates the analyzer of that
\* exercise and sends 'started' with no frame processed yet; every other
\* message or timeout creates nothing, and a 'start' naming another exercise
\* is answered with an error while the connection keeps waiting.
C30_IdleCreatesNothing ==
    /\ [](conn = "idle" => cls = "None" /\ self = <<>> /\ frame = NoFrame)
    /\ [][conn = "idle" =>
            IF conn' = "main"
            THEN /\ event'.kind = "start"
                 /\ \E exercise_type \in {"pushups", "squats"} :
                      /\ cls' = ANALYZER_CLASSES[exercise_type]
                      /\ sent' = <<Json("started", exercise_type, <<>>, None)>>
                 /\ self' = New(cls')
                 /\ self'.frame_count = 0 /\ frame' = NoFrame
            ELSE /\ cls' = "None" /\ self' = <<>> /\ frame' = NoFrame
                 /\ event'.kind = "start" =>
                      /\ conn' = "idle"
                      /\ \E exercise_type \in Exercises \ {"pushups", "squats"} :
                           sent' = <<Json("error", exercise_type, <<>>, None)>>]_vars

\* A 'start' naming an unknown exercise was answered with an error and the
\* connection is still idle.
C30_Witness ==
    /\ conn = "idle" /\ event = Handled("start", None)
    /\ sent = <<Json("error", "lunges", <<>>, None)>>
    /\ self = <<>>

\* C31: in the main loop of main.py, a message without a frame_id or without
\* a non-empty frame is answered 'Invalid frame format' and leaves the
\* analyzer as it was; the reply's message_id is the message's frame_id when
\* it has one, 0 included, and -1 when it has none.
C31_InvalidEchoesFrameId ==
    [][(conn = "main" /\ event'.kind = "invalid") =>
        /\ self' = self /\ cls' = cls /\ conn' = "main"
        /\ sent' = <<Json("feedback", "", <<Str("Invalid frame format")>>,
                          IF event'.frame_id = None THEN -1
                          ELSE event'.frame_id)>>]_vars

\* The texts of the chunks of a response stream that have one, in order.
SummaryTexts(stream) ==
    LET HasText(chunk) == chunk.text # ""
        with == SelectSeq(stream, HasText)
    IN [i \in DOMAIN with |-> with[i].text]

\* C32: in a live_coaching session generate_content is called at most once,
\* only after the 'end_session' message and only with at least one video
\* frame received; an 'end_session' with no frames is answered with the one
\* '[ERROR]' text and no call; '[END_OF_SUMMARY]' follows all the texts of the
\* response stream and nothing is sent after it.
C32_SummaryOnceAfterEnd ==
    /\ [](/\ coaching.calls <= 1
          /\ coaching.calls = 1 =>
               coaching.ended /\ coaching.video_frames # <<>>
          /\ (coaching.ended /\ coaching.video_frames = <<>>) =>
               /\ coaching.out = <<ErrorNoFrames>>
               /\ coaching.calls = 0 /\ coaching.pc = "done"
          /\ EndOfSummary \in Range(coaching.out) =>
               /\ coaching.out = SummaryTexts(coaching.response) \o <<EndOfSummary>>
               /\ coaching.calls = 1 /\ coaching.pc = "done")
    /\ [][/\ EndOfSummary \in Range(coaching.out) => coaching'.out = coaching.out
          /\ coaching'.calls # coaching.calls =>
               /\ ~coaching.ended /\ coaching'.ended
               /\ coaching'.video_frames = coaching.video_frames]_vars

\* A session that received two frames and streamed a summary of two texts.
C32_Witness ==
    /\ coaching.pc = "done" /\ Len(coaching.video_frames) = 2
    /\ coaching.calls = 1
    /\ coaching.out = <<"Nice effort.", "Nice effort.", EndOfSummary>>

\* C33: in PushupAnalyzer, after every process_frame call a stage of 'up'
\* has down_frames below FRAME_BUFFER and a stage of 'down' has up_frames
\* below FRAME_BUFFER: no transition is left pending.
C33_NoPendingTransition ==
    Pushup =>
        /\ self.stage = "up" => self.down_frames < FRAME_BUFFER
        /\ self.stage = "down" => self.up_frames < FRAME_BUFFER

\* The call that took the stage down with the third down frame in a row,
\* after frames that were up.
C33_Witness ==
    /\ Pushup /\ Analysed(frame) /\ raised = ""
    /\ self.stage = "down" /\ self.down_frames = FRAME_BUFFER
    /\ self.up_frames = 0 /\ self.frame_count > FRAME_BUFFER

\* The k-th call of a scripted push-up run added to rep_count.
Credited(sc, k) == After(sc, k).rep_count > After(sc, k - 1).rep_count

\* C34: in PushupAnalyzer, 2 * FRAME_BUFFER * rep_count never exceeds
\* frame_count, and two calls that add to rep_count are at least
\* 2 * FRAME_BUFFER calls apart.
C34_RepCostsFrames ==
    Pushup =>
        /\ 2 * FRAME_BUFFER * self.rep_count <= self.frame_count
        /\ \A j \in 1..self.frame_count, k \in 1..self.frame_count :
             (j < k /\ Credited(script, j) /\ Credited(script, k))
                 => k - j >= 2 * FRAME_BUFFER

\* The second rep of a run has just been credited.
C34_Witness ==
    /\ Pushup /\ self.rep_count = 2
    /\ Credited(script, self.frame_count)

\* C35: in PushupAnalyzer, a returned list that holds 'Great form! Keep it
\* up!' holds nothing else, and good_form_frames is in 0..7 after every call.
C35_PraiseAlone ==
    Pushup =>
        /\ GreatMsg \in Range(ret) => ret = <<GreatMsg>>
        /\ self.good_form_frames \in 0..(good_form_streak - 1)

\* The praise was returned by a session that was corrected earlier.
C35_Witness ==
    /\ Pushup /\ ret = <<GreatMsg>>
    /\ self.good_form_frames = 0
    /\ BackMsg \in Range(self.feedback_log)


=============================================================================
